---- MODULE Spec2Model ----
(***************************************************************************)
(* Feed ranking and ad-targeting engine of the Django feed application:    *)
(* the like toggle (feed/views.py), the interest store (feed/models.py)    *)
(* and the ad catalog cache and ad targeter (feed/utils_ads.py and the     *)
(* older feed/utils.py).                                                   *)
(*                                                                         *)
(* Scores are Python floats in the source.  Every weight and damped        *)
(* weight is a multiple of 0.05, so scores are kept here as exact integers *)
(* in hundredths (3.0 is 300).  Floating point rounding is not modelled: a *)
(* sum that is 9.0 here can be stored as 8.999999999999998 by the code,    *)
(* which then bands it by the stored value.                                *)
(*                                                                         *)
(* Specifications: SpecLike (concurrent toggle_like requests),             *)
(* SpecInterest (interest updates of one user over two tags), SpecScore    *)
(* (repeated updates of one pair, each call recorded), SpecInteract        *)
(* (process_user_interaction calls, with store failures), SpecInterestRace *)
(* (two concurrent update_user_interest calls on one pair), SpecAds        *)
(* (get_targeted_ad calls made one after another, with clock, ad edits and *)
(* cache clears), SpecAdRace (concurrent get_targeted_ad calls with an     *)
(* invalidation), SpecInterestsCache (get_user_interests calls with clock  *)
(* and engagement), SpecMix (one feed page mixed with ads), SpecRace       *)
(* (concurrent mixer calls and click requests on the ad counters) and      *)
(* SpecRequests (the like, click and impression endpoints, one request at  *)
(* a time).                                                                *)
(***************************************************************************)
EXTENDS Integers, Sequences, FiniteSets, TLC

\* ------------------------------------------------------------------------
\* Universe
\* ------------------------------------------------------------------------
Users == {"u1", "u2"}
Posts == {"p1", "p2"}
Tags  == {"hiking", "coffee"}
Reqs  == {"r1", "r2"}

\* A post id that names no row, and an absent post_id in the payload.
UnknownPost == "p404"
NoPostId    == "none"

\* Largest seeded Post.likes value drawn in Init.
MaxInitLikes == 1
\* Number of toggle_like requests that may be started in one behaviour.
MaxToggles == 4

Max(a, b) == IF a >= b THEN a ELSE b
Min(a, b) == IF a <= b THEN a ELSE b

VARIABLES
    likes,        \* Post.likes, committed value, per post
    postLikes,    \* number of committed PostLike rows per <<user, post>>
    lock,         \* holder of the row lock of each post (select_for_update)
    req,          \* toggle_like requests: position and locals
    initLikes,    \* history: Post.likes in the initial state
    nLiked,       \* history: committed 'liked' actions per <<user, post>>
    nUnliked,     \* history: committed 'unliked' actions per <<user, post>>
    lastToggle,   \* history: action of the last committed toggle per pair
    started,      \* history: number of toggle_like requests started
    interest,     \* UserInterest.score per <<user, tag>>, NoRow if no row
    lastCall,     \* history: the last interest call and what it did
    intw,         \* update_user_interest calls in steps: position and locals
    uicall,       \* history: the last get_user_interests call of a request
    now,          \* the clock: time.time() and timezone.now(), in seconds
    adActive,     \* Advertisement.is_active per ad, in the store
    ad_cache,     \* _ad_cache: NoneCache or the cached list of ads
    ad_cache_time,\* _ad_cache_time
    adw,          \* get_targeted_ad calls: position and locals
    refreshedAt,  \* history: when the store was last read for the catalog
    builtFrom,    \* history: the campaign-active ads at that read
    cleared,      \* history: clear_ad_cache ran since that read
    impressions,  \* Advertisement.impressions, committed value, per ad
    clicks,       \* Advertisement.clicks, committed value, per ad
    interests_cache, \* get_user_interests._cache, per user
    mixw,         \* feed mixer calls: position and locals
    clickw,       \* track_ad_click_view requests: position and locals
    ad_impressions,  \* the AdImpression rows, in order of creation
    impreq,       \* the impression request being served: payload, outcome
    calls         \* history: number of mixer and click calls started

likeVars == <<likes, postLikes, lock, req, initLikes, nLiked, nUnliked,
              lastToggle, started>>

interestVars == <<interest, lastCall, intw, uicall>>

adVars == <<now, adActive, ad_cache, ad_cache_time, adw, refreshedAt,
            builtFrom, cleared>>

trackVars == <<impressions, clicks, interests_cache, mixw, clickw,
               ad_impressions, impreq, calls>>

vars == <<likeVars, interestVars, adVars, trackVars>>

Pairs == Users \X Posts

NoLock == "free"

IdleReq == [pc |-> "idle", user |-> "u1", post |-> "p1", likes |-> 0,
            existing |-> FALSE, rowOp |-> "none", action |-> "none",
            status |-> 0, failedAt |-> "none"]

\* ------------------------------------------------------------------------
\* toggle_like  (feed/views.py)
\* ------------------------------------------------------------------------

\* PostLike.objects.filter(user=jwt_user, post=post): the number of rows the
\* lookup on (user, post) finds.  The unique index on (user, post) uses the
\* same lookup.
PostLikeFilterSwapped(rows, u, p) == IF <<p, u>> \in DOMAIN rows THEN rows[<<p, u>>] ELSE 0

PostLikeFilter(rows, u, p) == rows[<<u, p>>]

\* select_for_update(): the row lock of post p can be taken by request r.
NoRowLock(p, r) == TRUE

RowLockFree(p, r) == lock[p] = NoLock

\* post.likes after the 'unliked' branch.
UnlikeKeepsCount(n) == n

UnlikeCount(n) == Max(0, n - 1)

\* post.likes after the 'liked' branch.
LikeCount(n) == n + 1

\* The request arrives: method and authentication passed, the payload is
\* parsed.  A missing post_id ends the request with 400 before any
\* transaction is opened.
toggle_like_begin(r) ==
    /\ req[r].pc = "idle"
    /\ started < MaxToggles
    /\ \E u \in Users, p \in Posts \cup {UnknownPost, NoPostId} :
         req' = [req EXCEPT ![r] =
                   IF p = NoPostId
                   THEN [IdleReq EXCEPT !.user = u, !.post = p,
                                        !.pc = "done", !.status = 400]
                   ELSE [IdleReq EXCEPT !.user = u, !.post = p,
                                        !.pc = "select"]]
    /\ started' = started + 1
    /\ UNCHANGED <<likes, postLikes, lock, initLikes, nLiked, nUnliked,
                   lastToggle, interestVars, adVars, trackVars>>

\* transaction.atomic(); Post.objects.select_for_update().get(id=post_id).
\* Post.DoesNotExist returns 404 from inside the block: nothing was written.
\* Otherwise the request waits for the row lock and reads the row.
toggle_like_select(r) ==
    /\ req[r].pc = "select"
    /\ IF req[r].post \notin Posts
       THEN /\ req' = [req EXCEPT ![r].pc = "done", ![r].status = 404]
            /\ UNCHANGED lock
       ELSE /\ RowLockFree(req[r].post, r)
            /\ lock' = [lock EXCEPT ![req[r].post] = r]
            /\ req' = [req EXCEPT ![r].pc = "check",
                                  ![r].likes = likes[req[r].post]]
    /\ UNCHANGED <<likes, postLikes, initLikes, nLiked, nUnliked,
                   lastToggle, started, interestVars, adVars, trackVars>>

\* existing_like = PostLike.objects.filter(user=..., post=...).first()
toggle_like_check(r) ==
    /\ req[r].pc = "check"
    /\ req' = [req EXCEPT ![r].pc = "mutate",
                 ![r].existing =
                     (PostLikeFilter(postLikes, req[r].user, req[r].post) > 0)]
    /\ UNCHANGED <<likes, postLikes, lock, initLikes, nLiked, nUnliked,
                   lastToggle, started, interestVars, adVars, trackVars>>

\* The if/else on existing_like.  The row operation and the new counter are
\* written inside the transaction and become visible at commit.  A create
\* that meets a row of the same (user, post) raises IntegrityError.
toggle_like_mutate(r) ==
    /\ req[r].pc = "mutate"
    /\ req' = [req EXCEPT ![r] =
         IF req[r].existing
         THEN [@ EXCEPT !.pc = "save", !.rowOp = "delete",
                        !.likes = UnlikeCount(@), !.action = "unliked"]
         ELSE IF PostLikeFilter(postLikes, req[r].user, req[r].post) > 0
              THEN [@ EXCEPT !.pc = "rollback"]
              ELSE [@ EXCEPT !.pc = "save", !.rowOp = "create",
                             !.likes = LikeCount(@), !.action = "liked"]]
    /\ UNCHANGED <<likes, postLikes, lock, initLikes, nLiked, nUnliked,
                   lastToggle, started, interestVars, adVars, trackVars>>

\* post.save(update_fields=['likes']) and the commit that ends the atomic
\* block: the row operation and the counter become the committed state, the
\* row lock is released and the 200 response carries the action.
\* The unique index on (user, post) is enforced on the committed rows too: a
\* create whose pair has been committed meanwhile fails with IntegrityError.
toggle_like_save(r) ==
    /\ req[r].pc = "save"
    /\ LET u == req[r].user
           p == req[r].post
       IN IF req[r].rowOp = "create" /\ PostLikeFilter(postLikes, u, p) > 0
          THEN /\ req' = [req EXCEPT ![r].pc = "rollback"]
               /\ UNCHANGED <<likes, postLikes, nLiked, nUnliked, lastToggle,
                              lock>>
          ELSE /\ likes' = [likes EXCEPT ![p] = req[r].likes]
               /\ postLikes' = [postLikes EXCEPT ![<<u, p>>] =
                                  IF req[r].rowOp = "create" THEN @ + 1
                                  ELSE Max(0, @ - 1)]
               /\ nLiked' = [nLiked EXCEPT ![<<u, p>>] =
                                  IF req[r].action = "liked" THEN @ + 1 ELSE @]
               /\ nUnliked' = [nUnliked EXCEPT ![<<u, p>>] =
                                  IF req[r].action = "unliked" THEN @ + 1 ELSE @]
               /\ lastToggle' = [lastToggle EXCEPT ![<<u, p>>] = req[r].action]
               /\ lock' = [lock EXCEPT ![p] = IF @ = r THEN NoLock ELSE @]
               /\ req' = [req EXCEPT ![r].pc = "done", ![r].status = 200]
    /\ UNCHANGED <<initLikes, started, interestVars, adVars, trackVars>>

\* A store error inside the atomic block (or the IntegrityError above): the
\* transaction rolls back, `except Exception` answers 500.  The history
\* field keeps the position at which the store failed.
toggle_like_error_autocommit(r) ==
    /\ req[r].pc \in {"check", "mutate", "save", "rollback"}
    /\ lock' = [lock EXCEPT ![req[r].post] = IF @ = r THEN NoLock ELSE @]
    /\ req' = [req EXCEPT ![r].pc = "done", ![r].status = 500,
                          ![r].action = "none", ![r].rowOp = "none",
                          ![r].failedAt = req[r].pc]
    /\ postLikes' =
         IF req[r].pc = "save"
         THEN [postLikes EXCEPT ![<<req[r].user, req[r].post>>] =
                 IF req[r].rowOp = "create" THEN @ + 1 ELSE Max(0, @ - 1)]
         ELSE postLikes
    /\ UNCHANGED <<likes, initLikes, nLiked, nUnliked,
                   lastToggle, started, interestVars, adVars, trackVars>>

toggle_like_error(r) ==
    /\ req[r].pc \in {"check", "mutate", "save", "rollback"}
    /\ lock' = [lock EXCEPT ![req[r].post] = IF @ = r THEN NoLock ELSE @]
    /\ req' = [req EXCEPT ![r].pc = "done", ![r].status = 500,
                          ![r].action = "none", ![r].rowOp = "none",
                          ![r].failedAt = req[r].pc]
    /\ UNCHANGED <<likes, postLikes, initLikes, nLiked, nUnliked,
                   lastToggle, started, interestVars, adVars, trackVars>>

\* The response has been sent; the worker takes the next request.
toggle_like_return(r) ==
    /\ req[r].pc = "done"
    /\ req' = [req EXCEPT ![r] = IdleReq]
    /\ UNCHANGED <<likes, postLikes, lock, initLikes, nLiked, nUnliked,
                   lastToggle, started, interestVars, adVars, trackVars>>

\* Seeded posts carry a likes counter and no PostLike rows (seed_posts.py).
InitLike ==
    /\ likes \in [Posts -> 0..MaxInitLikes]
    /\ initLikes = likes
    /\ postLikes = [x \in Pairs |-> 0]
    /\ lock = [p \in Posts |-> NoLock]
    /\ req = [r \in Reqs |-> IdleReq]
    /\ nLiked = [x \in Pairs |-> 0]
    /\ nUnliked = [x \in Pairs |-> 0]
    /\ lastToggle = [x \in Pairs |-> "none"]
    /\ started = 0

\* ------------------------------------------------------------------------
\* Interest store  (feed/models.py)
\* ------------------------------------------------------------------------

\* No UserInterest row for the pair.
NoRow == -1

\* The user whose interactions are followed in the interest store.
InterestUsers == {"u1"}

KnownActions == {"view_30s", "like", "comment", "share", "save", "view_10s",
                 "click_profile"}

\* Action types passed to the interest store: the table's and two that the
\* table does not hold.
ActionTypes == KnownActions \cup {"unlike", "bookmark"}

\* Post.tags, a list per post.
PostTags(p) ==
    CASE p = "p1" -> <<"hiking", "coffee">>
      [] p = "p2" -> <<"coffee">>
      [] OTHER -> <<>>

\* INTEREST_WEIGHTS.get(action_type, 1.0), in hundredths.  (First a table
\* in which 'unlike' takes back what a 'like' gave.)
WeightsWithUnlike(a) ==
    CASE a = "view_30s" -> 100
      [] a = "like" -> 100
      [] a = "comment" -> 200
      [] a = "share" -> 300
      [] a = "save" -> 200
      [] a = "view_10s" -> 50
      [] a = "click_profile" -> 150
      [] a = "unlike" -> -100
      [] OTHER -> 100

INTEREST_WEIGHTS(a) ==
    CASE a = "view_30s" -> 100
      [] a = "like" -> 100
      [] a = "comment" -> 200
      [] a = "share" -> 300
      [] a = "save" -> 200
      [] a = "view_10s" -> 50
      [] a = "click_profile" -> 150
      [] OTHER -> 100

\* The band of a score: 0 below 3.0, 1 in [3.0, 6.0), 2 in [6.0, 9.0), 3 from
\* 9.0 on.
Band(cur) ==
    IF cur < 300 THEN 0 ELSE IF cur < 600 THEN 1 ELSE IF cur < 900 THEN 2 ELSE 3

\* actual_weight: the weight damped by the band of the current score.
ActualWeightSwapped(weight, cur) ==
    CASE Band(cur) = 0 -> weight
      [] Band(cur) = 1 -> (weight * 40) \div 100
      [] Band(cur) = 2 -> (weight * 70) \div 100
      [] OTHER -> (weight * 10) \div 100

ActualWeight(weight, cur) ==
    CASE Band(cur) = 0 -> weight
      [] Band(cur) = 1 -> (weight * 70) \div 100
      [] Band(cur) = 2 -> (weight * 40) \div 100
      [] OTHER -> (weight * 10) \div 100

\* min(10.0, current_score + actual_weight)
NoCap(s) == s

CapScore(s) == Min(1000, s)

\* The score update_user_interest leaves for a pair whose score was cur.
AlwaysAdd(cur, a) ==
    IF cur = NoRow THEN INTEREST_WEIGHTS(a)
    ELSE CapScore(cur + INTEREST_WEIGHTS(a))

UpdatedScore(cur, a) ==
    IF cur = NoRow
    THEN INTEREST_WEIGHTS(a)
    ELSE CapScore(cur + ActualWeight(INTEREST_WEIGHTS(a), cur))

\* The score the call added; a created row counts from 0.
Increase(cur, new) == new - (IF cur = NoRow THEN 0 ELSE cur)

NoCall == [kind |-> "none", user |-> "u1", target |-> "none",
           action |-> "none", delta |-> 0, pre |-> NoRow]

\* update_user_interest(user, interest, action_type): get_or_create with
\* defaults score = weight, else the damped and capped addition, saved.
update_user_interest(u, t, a) ==
    /\ interest' = [interest EXCEPT ![<<u, t>>] = UpdatedScore(@, a)]
    /\ UNCHANGED <<intw, uicall, likeVars, adVars, trackVars>>

\* The loop of process_user_interaction over a list of tags.
RECURSIVE UpdateTags(_, _, _, _)
UpdateTags(scores, u, tags, a) ==
    IF tags = <<>> THEN scores
    ELSE UpdateTags(
            [scores EXCEPT ![<<u, Head(tags)>>] = UpdatedScore(@, a)],
            u, Tail(tags), a)

\* process_user_interaction(user, post, action_type)
process_user_interaction(u, p, a) ==
    /\ interest' = UpdateTags(interest, u, PostTags(p), a)
    /\ UNCHANGED <<intw, uicall, likeVars, adVars, trackVars>>

\* process_user_interaction when the store fails in the update of the k-th
\* tag of the post: update_user_interest raises, nothing in the loop catches
\* the exception, so the tags before the k-th have been updated and the
\* loop ends there.
process_user_interaction_fails(u, p, a, k) ==
    /\ k \in 1..Len(PostTags(p))
    /\ interest' = UpdateTags(interest, u, SubSeq(PostTags(p), 1, k - 1), a)
    /\ UNCHANGED <<intw, uicall, likeVars, adVars, trackVars>>

\* History of a process_user_interaction call: its arguments and the
\* position of the tag whose update failed, 0 if none did.
RecordInteraction(u, p, a, k) ==
    lastCall' = [kind |-> "process", user |-> u, target |-> p, action |-> a,
                 delta |-> k, pre |-> NoRow]

\* History of an update_user_interest call: its arguments, the increase it
\* applied and the score before it.
RecordUpdate(u, t, a) ==
    lastCall' = [kind |-> "update", user |-> u, target |-> t, action |-> a,
                 delta |-> Increase(interest[<<u, t>>],
                                    interest'[<<u, t>>]),
                 pre |-> interest[<<u, t>>]]

\* No get_user_interests call has been made.
NoLookup == [made |-> FALSE, user |-> "u1", min_score |-> 0, limit |-> 0,
             names |-> {}, queried |-> FALSE]

\* update_user_interest in the steps of its code, for calls that run
\* concurrently.
InterestWorkers == {"i1", "i2"}

IdleUpdate == [pc |-> "idle", user |-> "u1", interest |-> "none",
               action_type |-> "none", created |-> FALSE,
               current_score |-> NoRow]

\* Lines 200-211: the weight is looked up; get_or_create returns the row of
\* the pair or creates it with score = weight (the unique index on
\* (user, interest) leaves one row when two calls create at once); the
\* score of an existing row is read.
update_user_interest_get(w, u, t, a) ==
    /\ intw[w].pc = "idle"
    /\ LET created == interest[<<u, t>>] = NoRow
       IN /\ intw' = [intw EXCEPT ![w] =
                        [pc |-> IF created THEN "done" ELSE "save",
                         user |-> u, interest |-> t, action_type |-> a,
                         created |-> created,
                         current_score |-> interest[<<u, t>>]]]
          /\ interest' = IF created
                         THEN [interest EXCEPT ![<<u, t>>] =
                                  INTEREST_WEIGHTS(a)]
                         ELSE interest
    /\ UNCHANGED <<lastCall, uicall, likeVars, adVars, trackVars>>

\* Lines 213-225: the new score is computed from the score that was read
\* and saved with interest_obj.save().
SaveOnReadScore(stored, read, a) ==
    CapScore(read + ActualWeight(INTEREST_WEIGHTS(a), read))

update_user_interest_save(w) ==
    /\ intw[w].pc = "save"
    /\ LET x == <<intw[w].user, intw[w].interest>>
       IN interest' = [interest EXCEPT ![x] =
                          SaveOnReadScore(@, intw[w].current_score,
                                          intw[w].action_type)]
    /\ intw' = [intw EXCEPT ![w].pc = "done"]
    /\ UNCHANGED <<lastCall, uicall, likeVars, adVars, trackVars>>

InitInterest ==
    /\ interest = [x \in Users \X Tags |-> NoRow]
    /\ lastCall = NoCall
    /\ intw = [w \in InterestWorkers |-> IdleUpdate]
    /\ uicall = NoLookup

\* No toggle_like request is in flight and no post carries a like.
LikeQuiet ==
    /\ likes = [p \in Posts |-> 0]
    /\ initLikes = likes
    /\ postLikes = [x \in Pairs |-> 0]
    /\ lock = [p \in Posts |-> NoLock]
    /\ req = [r \in Reqs |-> IdleReq]
    /\ nLiked = [x \in Pairs |-> 0]
    /\ nUnliked = [x \in Pairs |-> 0]
    /\ lastToggle = [x \in Pairs |-> "none"]
    /\ started = 0

\* ------------------------------------------------------------------------
\* Ad catalog cache and ad targeter  (feed/utils_ads.py, feed/utils.py)
\* ------------------------------------------------------------------------
Ads == {"a1", "a2", "a3"}
AdWorkers == {"w1", "w2"}

CACHE_TIMEOUT == 300

\* The clock when the process starts; time.time() is far above CACHE_TIMEOUT.
StartTime == 1000
\* The clock advances in steps of 150 s or 151 s, this far at most.
TickSteps == {150, 151}
MaxElapsed == 453

NoDate == -1

\* Advertisement.start_date and end_date (None is NoDate): a1 runs without a
\* window, a2 ends 300 s after the start, a3 starts 151 s after it.
start_date(a) == IF a = "a3" THEN StartTime + 151 ELSE NoDate
end_date(a) == IF a = "a2" THEN StartTime + 300 ELSE NoDate

\* Advertisement.target_audience
target_audience(a) ==
    CASE a = "a1" -> {"hiking"}
      [] a = "a2" -> {"hiking", "coffee"}
      [] OTHER -> {}

\* Advertisement.is_campaign_active at time t with the flag is_active.
IgnoresWindow(active, a, t) == active

is_campaign_active(active, a, t) ==
    IF ~active THEN FALSE
    ELSE IF start_date(a) # NoDate /\ t < start_date(a) THEN FALSE
    ELSE IF end_date(a) # NoDate /\ t > end_date(a) THEN FALSE
    ELSE TRUE

\* Campaign-active as the data model words it: is_active and the time within
\* the window, or the window unset.  Kept for the history of the catalog.
CampaignActiveAt(flags, t) ==
    {a \in Ads : /\ flags[a]
                 /\ (start_date(a) = NoDate \/ t >= start_date(a))
                 /\ (end_date(a) = NoDate \/ t <= end_date(a))}

\* Advertisement.objects.filter(is_active=True)
ActiveAds(flags) == {a \in Ads : flags[a]}

\* The list get_targeted_ad builds from the store at time t.
CampaignActiveAds(flags, t) ==
    {a \in ActiveAds(flags) : is_campaign_active(flags[a], a, t)}

\* _ad_cache = None
NoneCache == {"None"}
NoAd == "None"

\* (current_time - _ad_cache_time) > CACHE_TIMEOUT
ExpiredAtTimeout(t, cachedAt) == (t - cachedAt) >= CACHE_TIMEOUT

CacheExpired(t, cachedAt) == (t - cachedAt) > CACHE_TIMEOUT

\* The user_interests argument: None, the list utils_ads.get_user_interests
\* returns, or a QuerySet; with the interest names it holds.
InterestInputs ==
    {[kind |-> "none", names |-> {}],
     [kind |-> "list", names |-> {"hiking"}],
     [kind |-> "queryset", names |-> {}],
     [kind |-> "queryset", names |-> {"coffee"}],
     [kind |-> "queryset", names |-> {"hiking", "coffee"}]}

\* user_interests and hasattr(user_interests, 'exists') and
\* user_interests.exists()
UsesTargeting(ui) == ui.kind = "queryset" /\ ui.names # {}

\* The order in which the store lists the ads, the order of the catalog.
AdOrder == <<"a1", "a2", "a3">>

\* matches = set(ad.target_audience) & set(interest_names)
Matches(a, ui) == target_audience(a) \cap ui.names

\* [ad] * len(matches)
OncePerAd(a, n) == IF n > 0 THEN <<a>> ELSE <<>>

Repeat(a, n) == [k \in 1..n |-> a]

\* The list targeted_ads: the loop over the catalog extends it by
\* [ad] * len(matches) for every ad that has a target_audience and matches.
RECURSIVE PoolOver(_, _, _)
PoolOver(order, catalog, ui) ==
    IF order = <<>> THEN <<>>
    ELSE LET ad == Head(order)
             entries == IF ad \in catalog /\ target_audience(ad) # {}
                           /\ Matches(ad, ui) # {}
                        THEN Repeat(ad, Cardinality(Matches(ad, ui)))
                        ELSE <<>>
         IN entries \o PoolOver(Tail(order), catalog, ui)

targeted_ads(catalog, ui) ==
    IF UsesTargeting(ui) THEN PoolOver(AdOrder, catalog, ui) ELSE <<>>

\* The ads of targeted_ads.
TargetedAds(catalog, ui) ==
    {targeted_ads(catalog, ui)[k] : k \in 1..Len(targeted_ads(catalog, ui))}

\* The ads random.choice can return.
Selectable(catalog, ui) ==
    IF TargetedAds(catalog, ui) # {} THEN TargetedAds(catalog, ui)
    ELSE catalog

IdleAd == [pc |-> "idle", impl |-> "utils_ads", current_time |-> 0,
           ui |-> [kind |-> "none", names |-> {}], local |-> NoneCache,
           result |-> NoAd, pool |-> <<>>, queries |-> 0, built |-> {},
           before |-> NoneCache, prior |-> {}, age |-> 0,
           wasCleared |-> FALSE, wasCached |-> FALSE,
           readAt |-> NoDate, preClear |-> FALSE, fetched |-> NoneCache,
           clearedDuring |-> FALSE]

\* utils_ads.get_targeted_ad, lines 20-26: the clock is read and the cache
\* is tested.  The history fields keep what the call found: the cached
\* list, the campaign-active ads at the last read of the store, the time
\* since that read, whether one happened and whether clear_ad_cache ran
\* since.
gta_call(w, inputs) ==
    /\ adw[w].pc = "idle"
    /\ \E ui \in inputs :
         adw' = [adw EXCEPT ![w] =
                   [IdleAd EXCEPT
                      !.current_time = now,
                      !.ui = ui,
                      !.before = ad_cache,
                      !.prior = builtFrom,
                      !.age = now - refreshedAt,
                      !.wasCached = refreshedAt # NoDate,
                      !.wasCleared = cleared,
                      !.pc = IF ad_cache = NoneCache
                                \/ CacheExpired(now, ad_cache_time)
                             THEN "query" ELSE "read"]]
    /\ UNCHANGED <<now, adActive, ad_cache, ad_cache_time, refreshedAt,
                   builtFrom, cleared, likeVars, interestVars, trackVars>>

gta_begin(w) == gta_call(w, InterestInputs)

\* Lines 31-38: the store is read and filtered by is_campaign_active.  The
\* history fields keep when the list was read, the campaign-active ads then
\* and that no clear_ad_cache has run since.
gta_query(w) ==
    /\ adw[w].pc = "query"
    /\ adw' = [adw EXCEPT ![w].pc = "write_cache",
                          ![w].local = CampaignActiveAds(adActive, now),
                          ![w].fetched = CampaignActiveAds(adActive, now),
                          ![w].queries = @ + 1,
                          ![w].readAt = now,
                          ![w].built = CampaignActiveAt(adActive, now),
                          ![w].preClear = FALSE]
    /\ UNCHANGED <<now, adActive, ad_cache, ad_cache_time, refreshedAt,
                   builtFrom, cleared, likeVars, interestVars, trackVars>>

\* Line 45: _ad_cache = campaign_active_ads.  The history of the cached
\* list follows the list.
gta_write_cache(w) ==
    /\ adw[w].pc = "write_cache"
    /\ ad_cache' = adw[w].local
    /\ refreshedAt' = adw[w].readAt
    /\ builtFrom' = adw[w].built
    /\ cleared' = adw[w].preClear
    /\ adw' = [adw EXCEPT ![w].pc = "write_time"]
    /\ UNCHANGED <<now, adActive, ad_cache_time, likeVars, interestVars,
                   trackVars>>

\* Line 46: _ad_cache_time = current_time
gta_write_time(w) ==
    /\ adw[w].pc = "write_time"
    /\ ad_cache_time' = adw[w].current_time
    /\ adw' = [adw EXCEPT ![w].pc = "read"]
    /\ UNCHANGED <<now, adActive, ad_cache, refreshedAt, builtFrom, cleared,
                   likeVars, interestVars, trackVars>>

\* Lines 50-54: campaign_active_ads = _ad_cache; None or an empty list
\* returns None.
gta_read(w) ==
    /\ adw[w].pc = "read"
    /\ adw' = [adw EXCEPT ![w].local = ad_cache,
                          ![w].built = builtFrom,
                          ![w].readAt = refreshedAt,
                          ![w].preClear = cleared,
                          ![w].pc = IF ad_cache = NoneCache \/ ad_cache = {}
                                    THEN "done" ELSE "select"]
    /\ UNCHANGED <<now, adActive, ad_cache, ad_cache_time, refreshedAt,
                   builtFrom, cleared, likeVars, interestVars, trackVars>>

\* Lines 56-76: random.choice over the targeted ads, else over the catalog.
gta_select(w) ==
    /\ adw[w].pc = "select"
    /\ \E a \in Selectable(adw[w].local, adw[w].ui) :
         adw' = [adw EXCEPT ![w].result = a, ![w].pc = "done",
                            ![w].pool = targeted_ads(adw[w].local,
                                                     adw[w].ui)]
    /\ UNCHANGED <<now, adActive, ad_cache, ad_cache_time, refreshedAt,
                   builtFrom, cleared, likeVars, interestVars, trackVars>>

\* The call has returned.
gta_return(w) ==
    /\ adw[w].pc = "done"
    /\ adw' = [adw EXCEPT ![w] = IdleAd]
    /\ UNCHANGED <<now, adActive, ad_cache, ad_cache_time, refreshedAt,
                   builtFrom, cleared, likeVars, interestVars, trackVars>>

\* utils.get_targeted_ad (feed/utils.py): no cache; when no ad is
\* campaign-active it falls back to a random is_active ad.
utils_get_targeted_ad(w) ==
    /\ adw[w].pc = "idle"
    /\ \E ui \in InterestInputs :
         LET active == ActiveAds(adActive)
             catalog == CampaignActiveAds(adActive, now)
             choices == IF catalog = {} THEN active
                        ELSE Selectable(catalog, ui)
             built == CampaignActiveAt(adActive, now)
         IN \E a \in IF choices = {} THEN {NoAd} ELSE choices :
              adw' = [adw EXCEPT ![w] =
                        [IdleAd EXCEPT !.impl = "utils", !.current_time = now,
                                       !.ui = ui, !.local = catalog,
                                       !.built = built, !.queries = 1,
                                       !.pool = targeted_ads(catalog, ui),
                                       !.result = a, !.pc = "done"]]
    /\ UNCHANGED <<now, adActive, ad_cache, ad_cache_time, refreshedAt,
                   builtFrom, cleared, likeVars, interestVars, trackVars>>

\* clear_ad_cache()
clear_ad_cache_without_global ==
    /\ cleared' = TRUE
    /\ UNCHANGED <<ad_cache, ad_cache_time>>

clear_ad_cache ==
    /\ ad_cache' = NoneCache
    /\ ad_cache_time' = 0
    /\ cleared' = TRUE

\* An ad is switched on or off in the store by ad operations.
ad_ops_edit(a) == adActive' = [adActive EXCEPT ![a] = ~@]

\* The ad that ad operations change while calls are running.
EditedAd == "a1"

\* History of the calls in flight when clear_ad_cache runs: the call did not
\* start after it, and a list the call has read from the store and not yet
\* written to the cache was read before it.
MarkCleared(w) ==
    IF w.pc = "idle" THEN w
    ELSE [w EXCEPT !.clearedDuring = TRUE,
                   !.preClear = IF w.pc \in {"write_cache", "write_time"}
                                THEN TRUE ELSE @]

\* Ad operations switch the ad off and call clear_ad_cache(), while
\* get_targeted_ad calls are running.
ad_ops_edit_and_clear ==
    /\ adActive[EditedAd]
    /\ ad_ops_edit(EditedAd)
    /\ clear_ad_cache
    /\ adw' = [w \in AdWorkers |-> MarkCleared(adw[w])]
    /\ UNCHANGED <<now, refreshedAt, builtFrom, likeVars, interestVars,
                   trackVars>>

\* Time passes.
Tick(d) ==
    /\ now + d <= StartTime + MaxElapsed
    /\ now' = now + d

\* No get_targeted_ad call is running.
NoCallRunning == \A w \in AdWorkers : adw[w].pc = "idle"

InitAds ==
    /\ now = StartTime
    /\ adActive \in [Ads -> BOOLEAN]
    /\ ad_cache = NoneCache
    /\ ad_cache_time = 0
    /\ adw = [w \in AdWorkers |-> IdleAd]
    /\ refreshedAt = NoDate
    /\ builtFrom = {}
    /\ cleared = FALSE

\* The ad side at rest: used by the runs that follow likes and interests.
AdsQuiet ==
    /\ now = StartTime
    /\ adActive = [a \in Ads |-> TRUE]
    /\ ad_cache = NoneCache
    /\ ad_cache_time = 0
    /\ adw = [w \in AdWorkers |-> IdleAd]
    /\ refreshedAt = NoDate
    /\ builtFrom = {}
    /\ cleared = FALSE

\* ------------------------------------------------------------------------
\* Ad counters and the feed mixer  (feed/utils_posts.py, feed/utils_ads.py
\* and the older feed/utils.py)
\* ------------------------------------------------------------------------
MixWorkers == {"m1", "m2"}

\* user = None: an anonymous visitor.
NoUser == "None"
MixUsers == {NoUser, "u1"}

\* Largest number of posts handed to the mixer, and largest cadence.
MaxPosts == 3
MaxFreq == 2
\* posts_per_page: smaller than a call's post list, and the views' 10.
PageSizes == {2, 10}
\* Number of feed pages mixed in one behaviour of the feed runs.
MaxMixes == 1
\* Number of mixer and click calls that may be started in one behaviour of
\* the runs with concurrent calls.
MaxCalls == 3

\* cache_timeout of get_user_interests
INTERESTS_CACHE_TIMEOUT == 600

\* The posts handed to the mixer, in feed order.
PostId(i) == "p" \o ToString(i)
PostList(M) == [i \in 1..M |-> PostId(i)]

\* posts_queryset[:posts_per_page]
Slice(posts, n) == SubSeq(posts, 1, Min(Len(posts), n))

\* The entries of mixed_items.
PostItem(p) == [type |-> "post", id |-> p]
AdItem(a) == [type |-> "advertisement", id |-> a]

\* should_add_ad = (i + 1) % ads_frequency == 0, i + 1 the 1-based position.
SlotAfterEveryPost(position, freq) == TRUE

should_add_ad(position, freq) == position % freq = 0

\* UserInterest.objects.filter(user=user, score__gte=min_score): the names
\* of the stored interests of u with score >= 1.0.
StoredInterests(scores, u) ==
    {t \in Tags : <<u, t>> \in DOMAIN scores /\ scores[<<u, t>>] >= 100}

\* get_user_interests._cache.get(cache_key) finds nothing.
NoEntry == [cached |-> FALSE, interests |-> {}, time |-> 0]

\* An entry of get_user_interests._cache is fresh.
InterestsCachedAtTimeout(cache, u, t) ==
    /\ cache[u].cached
    /\ (t - cache[u].time) <= INTERESTS_CACHE_TIMEOUT

InterestsCached(cache, u, t) ==
    /\ cache[u].cached
    /\ (t - cache[u].time) < INTERESTS_CACHE_TIMEOUT

\* utils_ads.get_user_interests: an empty QuerySet without a user, else the
\* cached or freshly loaded list.
get_user_interests(cache, scores, u, t) ==
    IF u = NoUser THEN [kind |-> "queryset", names |-> {}]
    ELSE IF InterestsCached(cache, u, t)
         THEN [kind |-> "list", names |-> cache[u].interests]
         ELSE [kind |-> "list", names |-> StoredInterests(scores, u)]

\* get_user_interests._cache after the call.
InterestsCacheAfter(cache, scores, u, t) ==
    IF u = NoUser \/ InterestsCached(cache, u, t) THEN cache
    ELSE [cache EXCEPT ![u] = [cached |-> TRUE,
                               interests |-> StoredInterests(scores, u),
                               time |-> t]]

\* The arguments min_score (in hundredths) and limit of get_user_interests:
\* the mixers pass 1.0 and 10.
MinScores == {100, 400}
Limits == {1, 10}

\* list(UserInterest.objects.filter(user=user, score__gte=min_score)
\* .order_by('-score')[:limit]): the sets of names such a list can hold; rows
\* of equal score come in the order the store gives them.
Loads(scores, u, min_score, limit) ==
    LET rows == {t \in Tags : scores[<<u, t>>] >= min_score}
    IN {S \in SUBSET rows :
           /\ Cardinality(S) = Min(limit, Cardinality(rows))
           /\ \A t \in S, r \in rows \ S :
                  scores[<<u, t>>] >= scores[<<u, r>>]}

\* utils_ads.get_user_interests(user, min_score, limit) called for a user:
\* a fresh entry of the cache is returned as it is, else the list is loaded
\* and cached under the key of the user.
get_user_interests_call(u, min_score, limit) ==
    IF InterestsCached(interests_cache, u, now)
    THEN /\ uicall' = [made |-> TRUE, user |-> u, min_score |-> min_score,
                       limit |-> limit,
                       names |-> interests_cache[u].interests,
                       queried |-> FALSE]
         /\ UNCHANGED interests_cache
    ELSE \E names \in Loads(interest, u, min_score, limit) :
            /\ uicall' = [made |-> TRUE, user |-> u,
                          min_score |-> min_score, limit |-> limit,
                          names |-> names, queried |-> TRUE]
            /\ interests_cache' =
                  [interests_cache EXCEPT ![u] =
                      [cached |-> TRUE, interests |-> names, time |-> now]]

\* utils.get_user_interests (feed/utils.py): a QuerySet, never cached.
utils_get_user_interests(scores, u) ==
    IF u = NoUser THEN [kind |-> "queryset", names |-> {}]
    ELSE [kind |-> "queryset", names |-> StoredInterests(scores, u)]

IdleMix == [pc |-> "idle", impl |-> "utils_posts", user |-> NoUser,
            posts |-> <<>>, posts_per_page |-> 10, posts_list |-> <<>>,
            ads_frequency |-> 1,
            ui |-> [kind |-> "none", names |-> {}], i |-> 0,
            mixed_items |-> <<>>, ad |-> NoAd, local |-> 0, catalog |-> {},
            empty |-> 0, failed |-> FALSE, failedAt |-> 0,
            before |-> [a \in Ads |-> 0]]

\* The position of the loop after post i of the list has been handled.
AfterPost(w, i) == IF i >= Len(w.posts_list) THEN "done" ELSE "loop"

\* The head of a mixer call: the post list is taken and the interests of
\* the user are read, once.
MixBegin(m, impl, sizes, freqs, pages, users, limit) ==
    /\ mixw[m].pc = "idle"
    /\ calls < limit
    /\ calls' = calls + 1
    /\ \E M \in sizes, N \in freqs, posts_per_page \in pages, u \in users :
         LET posts == PostList(M)
             list == IF impl = "utils_posts" THEN Slice(posts, posts_per_page)
                     ELSE posts
             ui == IF impl = "utils"
                   THEN utils_get_user_interests(interest, u)
                   ELSE get_user_interests(interests_cache, interest, u, now)
         IN /\ mixw' = [mixw EXCEPT ![m] =
                          [IdleMix EXCEPT !.impl = impl, !.user = u,
                                          !.posts = posts,
                                          !.posts_per_page = posts_per_page,
                                          !.posts_list = list,
                                          !.ads_frequency = N, !.ui = ui,
                                          !.before = impressions,
                                          !.pc = IF list = <<>> THEN "done"
                                                 ELSE "loop"]]
            /\ interests_cache' =
                 IF impl = "utils" THEN interests_cache
                 ELSE InterestsCacheAfter(interests_cache, interest, u, now)
    /\ UNCHANGED <<impressions, clicks, clickw, ad_impressions, impreq,
                   likeVars, interestVars,
                   adVars>>

\* utils_posts.mix_smart_posts_with_ads(posts_queryset, user, posts_per_page,
\* ads_frequency)
mix_smart_posts_with_ads(m) ==
    MixBegin(m, "utils_posts", 0..MaxPosts, 1..MaxFreq, PageSizes, MixUsers,
             MaxMixes)

\* utils_ads.mix_posts_with_ads(posts, user, ads_frequency)
mix_posts_with_ads(m) ==
    MixBegin(m, "utils_ads", 0..MaxPosts, 1..MaxFreq, {10}, {"u1"}, MaxMixes)

\* utils.mix_posts_with_ads(posts, user, ads_frequency)  (feed/utils.py)
utils_mix_posts_with_ads(m) ==
    MixBegin(m, "utils", 1..1, 1..1, {10}, {"u1"}, MaxCalls)

\* mix_smart_posts_with_ads on a page of one post with cadence 1: a call
\* that reaches one ad slot.
mix_smart_one_slot(m) ==
    MixBegin(m, "utils_posts", 1..1, 1..1, {10}, {"u1"}, MaxCalls)

\* get_targeted_ad as one step of the mixer: the catalog it works on.
GtaRebuilds == ad_cache = NoneCache \/ CacheExpired(now, ad_cache_time)

GtaCatalog(impl) ==
    IF impl = "utils" \/ GtaRebuilds THEN CampaignActiveAds(adActive, now)
    ELSE ad_cache

\* The values get_targeted_ad can return to the mixer.
GtaChoices(impl, ui) ==
    LET catalog == GtaCatalog(impl)
        choices == IF catalog # {} THEN Selectable(catalog, ui)
                   ELSE IF impl = "utils" THEN ActiveAds(adActive)
                   ELSE {}
    IN IF choices = {} THEN {NoAd} ELSE choices

\* One turn of the loop: the post is appended; at a slot get_targeted_ad is
\* called and the ad it returns is appended.  The impression is tracked in
\* the next step.
mix_next(m) ==
    /\ mixw[m].pc = "loop"
    /\ LET w == mixw[m]
           i == w.i + 1
           withPost == Append(w.mixed_items, PostItem(w.posts_list[i]))
           live == w.impl # "utils"
       IN IF should_add_ad(i, w.ads_frequency)
          THEN /\ \E a \in GtaChoices(w.impl, w.ui) :
                    mixw' = [mixw EXCEPT ![m] =
                         [w EXCEPT !.i = i,
                                   !.ad = a,
                                   !.catalog = GtaCatalog(w.impl),
                                   !.local = IF a = NoAd THEN 0
                                             ELSE impressions[a],
                                   !.empty = IF a = NoAd THEN @ + 1 ELSE @,
                                   !.mixed_items =
                                       IF a = NoAd THEN withPost
                                       ELSE Append(withPost, AdItem(a)),
                                   !.pc = IF a = NoAd THEN AfterPost(w, i)
                                          ELSE "track"]]
               /\ ad_cache' = IF live THEN GtaCatalog(w.impl) ELSE ad_cache
               /\ ad_cache_time' = IF live /\ GtaRebuilds THEN now
                                   ELSE ad_cache_time
               /\ refreshedAt' = IF live /\ GtaRebuilds THEN now
                                 ELSE refreshedAt
               /\ builtFrom' = IF live /\ GtaRebuilds
                               THEN CampaignActiveAt(adActive, now)
                               ELSE builtFrom
               /\ cleared' = IF live /\ GtaRebuilds THEN FALSE ELSE cleared
          ELSE /\ mixw' = [mixw EXCEPT ![m] =
                             [w EXCEPT !.i = i, !.mixed_items = withPost,
                                       !.pc = AfterPost(w, i)]]
               /\ UNCHANGED <<ad_cache, ad_cache_time, refreshedAt,
                              builtFrom, cleared>>
    /\ UNCHANGED <<now, adActive, adw, impressions, clicks, interests_cache,
                   clickw, ad_impressions, impreq, calls,
                   likeVars, interestVars>>

\* utils_ads.track_ad_impression: filter(id=ad.id).update(impressions=
\* F('impressions') + 1), one statement of the store.
ImpressionsUntouched(counter, a, seen) == counter

ImpressionsUpdate(counter, a, seen) == [counter EXCEPT ![a] = @ + 1]

\* utils.track_ad_impression (feed/utils.py): ad.impressions += 1 on the
\* object get_targeted_ad loaded, then save(update_fields=['impressions']).
ImpressionsSave(counter, a, seen) == [counter EXCEPT ![a] = seen + 1]

\* track_ad_impression(ad) without its try/except: a store failure ends
\* the mixer call with the exception and no output.
mix_track_raising(m) ==
    /\ mixw[m].pc = "track"
    /\ LET w == mixw[m]
       IN \/ /\ impressions' =
                  IF w.impl = "utils"
                  THEN ImpressionsSave(impressions, w.ad, w.local)
                  ELSE ImpressionsUpdate(impressions, w.ad, w.local)
             /\ mixw' = [mixw EXCEPT ![m].pc = AfterPost(w, w.i)]
          \/ /\ mixw' = [mixw EXCEPT ![m].pc = "done",
                                     ![m].mixed_items = <<>>,
                                     ![m].failed = TRUE,
                                     ![m].failedAt = w.i]
             /\ UNCHANGED impressions
    /\ UNCHANGED <<clicks, interests_cache, clickw, ad_impressions, impreq,
                   calls, likeVars, interestVars, adVars>>

\* track_ad_impression(ad): the counter is written, or the store fails and
\* the exception is swallowed.  The history fields keep that an update
\* failed and the position of the post it followed.
mix_track(m) ==
    /\ mixw[m].pc = "track"
    /\ LET w == mixw[m]
       IN \/ /\ impressions' =
                  IF w.impl = "utils"
                  THEN ImpressionsSave(impressions, w.ad, w.local)
                  ELSE ImpressionsUpdate(impressions, w.ad, w.local)
             /\ mixw' = [mixw EXCEPT ![m].pc = AfterPost(w, w.i)]
          \/ /\ mixw' = [mixw EXCEPT ![m].pc = AfterPost(w, w.i),
                                     ![m].failed = TRUE,
                                     ![m].failedAt = w.i]
             /\ UNCHANGED impressions
    /\ UNCHANGED <<clicks, interests_cache, clickw, ad_impressions, impreq,
                   calls, likeVars, interestVars, adVars>>

\* The mixer has returned mixed_items.
mix_return(m) ==
    /\ mixw[m].pc = "done"
    /\ mixw' = [mixw EXCEPT ![m] = IdleMix]
    /\ UNCHANGED <<impressions, clicks, interests_cache, clickw,
                   ad_impressions, impreq, calls, likeVars, interestVars, adVars>>

\* ------------------------------------------------------------------------
\* track_ad_click  (feed/views.py, feed/utils_ads.py)
\* ------------------------------------------------------------------------
ClickWorkers == {"c1", "c2"}

\* An ad id that names no row, and an absent ad_id in the payload.
UnknownAd == "a404"
NoAdId == "none"

IdleClick == [pc |-> "idle", ad_id |-> NoAdId, local |-> 0, status |-> 0,
              before |-> 0]

\* track_ad_click_view: the payload is parsed; a missing ad_id answers 400.
\* The history field keeps the committed counter the request started from.
track_ad_click_view(c) ==
    /\ clickw[c].pc = "idle"
    /\ calls < MaxCalls
    /\ calls' = calls + 1
    /\ \E id \in Ads \cup {UnknownAd, NoAdId} :
         clickw' = [clickw EXCEPT ![c] =
                      IF id = NoAdId
                      THEN [IdleClick EXCEPT !.pc = "done", !.status = 400]
                      ELSE [IdleClick EXCEPT
                              !.pc = "get", !.ad_id = id,
                              !.before = IF id \in Ads THEN clicks[id]
                                         ELSE 0]]
    /\ UNCHANGED <<impressions, clicks, interests_cache, mixw, ad_impressions,
                   impreq, likeVars,
                   interestVars, adVars>>

\* track_ad_click: ad = Advertisement.objects.get(id=ad_id).  DoesNotExist
\* or a store error returns False, which the view answers with 404.
track_ad_click_get_unchecked(c) ==
    /\ clickw[c].pc = "get"
    /\ \/ /\ clickw[c].ad_id \in Ads
          /\ clickw' = [clickw EXCEPT ![c].local = clicks[clickw[c].ad_id],
                                      ![c].pc = "save"]
       \/ clickw' = [clickw EXCEPT ![c].pc = "done", ![c].status = 200]
    /\ UNCHANGED <<impressions, clicks, interests_cache, mixw, ad_impressions,
                   impreq, calls, likeVars, interestVars, adVars>>

track_ad_click_get(c) ==
    /\ clickw[c].pc = "get"
    /\ \/ /\ clickw[c].ad_id \in Ads
          /\ clickw' = [clickw EXCEPT ![c].local = clicks[clickw[c].ad_id],
                                      ![c].pc = "save"]
       \/ clickw' = [clickw EXCEPT ![c].pc = "done", ![c].status = 404]
    /\ UNCHANGED <<impressions, clicks, interests_cache, mixw, ad_impressions,
                   impreq, calls, likeVars,
                   interestVars, adVars>>

\* ad.clicks += 1; ad.save(update_fields=['clicks'])
ClicksSave(counter, a, seen) == [counter EXCEPT ![a] = seen + 1]

\* The save writes the counter and the call returns True; or the store
\* fails and the call returns False.
track_ad_click_save(c) ==
    /\ clickw[c].pc = "save"
    /\ LET a == clickw[c].ad_id
       IN \/ /\ clicks' = ClicksSave(clicks, a, clickw[c].local)
             /\ clickw' = [clickw EXCEPT ![c].pc = "done", ![c].status = 200]
          \/ /\ clickw' = [clickw EXCEPT ![c].pc = "done", ![c].status = 404]
             /\ UNCHANGED clicks
    /\ UNCHANGED <<impressions, interests_cache, mixw, ad_impressions, impreq,
                   calls, likeVars, interestVars,
                   adVars>>

\* The response has been sent.
track_ad_click_return(c) ==
    /\ clickw[c].pc = "done"
    /\ clickw' = [clickw EXCEPT ![c] = IdleClick]
    /\ UNCHANGED <<impressions, clicks, interests_cache, mixw, ad_impressions,
                   impreq, calls, likeVars,
                   interestVars, adVars>>

\* ------------------------------------------------------------------------
\* AdImpression rows  (feed/models.py, feed/views.py)
\* ------------------------------------------------------------------------

\* Number of AdImpression rows that may be created in one behaviour.
MaxImpressions == 2

\* An absent impression_id in the payload.
NoImpressionId == 0

\* duration_seconds of the payload, in hundredths of a second.
Durations == {0, 99, 100, 250}

\* viewport_percentage of the payload, in hundredths.
Viewports == {0, 50}

IdleImp == [pc |-> "idle", view |-> "none", ad_id |-> NoAdId,
            impression_id |-> NoImpressionId, duration_seconds |-> 0,
            viewport_percentage |-> 0, status |-> 0, created |-> 0,
            failed |-> FALSE]

\* AdImpression.objects.create(user=..., advertisement=..., ...): the other
\* fields take the defaults of the model.
NewAdImpression(a, t) ==
    [advertisement |-> a, view_duration |-> 0, viewport_percentage |-> 0,
     impression_start |-> t, impression_end |-> NoDate,
     is_valid_impression |-> TRUE]

\* AdImpression.mark_as_ended(duration_seconds)
mark_as_ended(row, duration_seconds, t) ==
    LET ended == [row EXCEPT !.impression_end = t,
                             !.view_duration = duration_seconds]
    IN [ended EXCEPT !.is_valid_impression = ended.view_duration >= 100]

\* AdImpression.objects.get(id=impression_id) finds a row.
ImpressionExists(rows, id) == id \in DOMAIN rows

\* The ads that come into view in a browser.
ViewedAds == {"a1", "a2"}

\* A POST to api/track-ad-impression/ arrives; the payload is parsed.
track_ad_impression_request ==
    /\ impreq.pc = "idle"
    /\ \E id \in ViewedAds \cup {UnknownAd, NoAdId} :
         impreq' = [IdleImp EXCEPT !.pc = "run",
                                   !.view = "track_ad_impression",
                                   !.ad_id = id]
    /\ UNCHANGED <<impressions, clicks, interests_cache, mixw, clickw,
                   ad_impressions, calls, likeVars, interestVars, adVars>>

\* views.track_ad_impression: a missing ad_id answers 400, an unknown ad
\* 404; create_ad_impression adds the row, or returns None when the store
\* fails, and both answer success.  The field `failed` keeps that the store
\* failed.  (First the variant with the duplicate check that
\* create_ad_impression carries commented out.)
track_ad_impression_deduplicated ==
    /\ impreq.pc = "run"
    /\ impreq.view = "track_ad_impression"
    /\ IF impreq.ad_id = NoAdId
       THEN /\ impreq' = [impreq EXCEPT !.pc = "done", !.status = 400]
            /\ UNCHANGED ad_impressions
       ELSE IF impreq.ad_id \notin Ads
       THEN /\ impreq' = [impreq EXCEPT !.pc = "done", !.status = 404]
            /\ UNCHANGED ad_impressions
       ELSE IF \E k \in DOMAIN ad_impressions :
                  ad_impressions[k].advertisement = impreq.ad_id
       THEN /\ impreq' = [impreq EXCEPT !.pc = "done", !.status = 200]
            /\ UNCHANGED ad_impressions
       ELSE \/ /\ Len(ad_impressions) < MaxImpressions
               /\ ad_impressions' =
                    Append(ad_impressions,
                           NewAdImpression(impreq.ad_id, now))
               /\ impreq' = [impreq EXCEPT
                               !.pc = "done", !.status = 200,
                               !.created = Len(ad_impressions) + 1]
            \/ /\ impreq' = [impreq EXCEPT !.pc = "done", !.status = 200,
                                            !.failed = TRUE]
               /\ UNCHANGED ad_impressions
    /\ UNCHANGED <<impressions, clicks, interests_cache, mixw, clickw, calls,
                   likeVars, interestVars, adVars>>

track_ad_impression ==
    /\ impreq.pc = "run"
    /\ impreq.view = "track_ad_impression"
    /\ IF impreq.ad_id = NoAdId
       THEN /\ impreq' = [impreq EXCEPT !.pc = "done", !.status = 400]
            /\ UNCHANGED ad_impressions
       ELSE IF impreq.ad_id \notin Ads
       THEN /\ impreq' = [impreq EXCEPT !.pc = "done", !.status = 404]
            /\ UNCHANGED ad_impressions
       ELSE \/ /\ Len(ad_impressions) < MaxImpressions
               /\ ad_impressions' =
                    Append(ad_impressions,
                           NewAdImpression(impreq.ad_id, now))
               /\ impreq' = [impreq EXCEPT
                               !.pc = "done", !.status = 200,
                               !.created = Len(ad_impressions) + 1]
            \/ /\ impreq' = [impreq EXCEPT !.pc = "done", !.status = 200,
                                            !.failed = TRUE]
               /\ UNCHANGED ad_impressions
    /\ UNCHANGED <<impressions, clicks, interests_cache, mixw, clickw, calls,
                   likeVars, interestVars, adVars>>

\* A POST to api/update-ad-impression/ arrives; the payload is parsed.
update_ad_impression_request ==
    /\ impreq.pc = "idle"
    /\ \E id \in 0..(MaxImpressions + 1), d \in Durations, v \in Viewports :
         impreq' = [IdleImp EXCEPT !.pc = "run",
                                   !.view = "update_ad_impression",
                                   !.impression_id = id,
                                   !.duration_seconds = d,
                                   !.viewport_percentage = v]
    /\ UNCHANGED <<impressions, clicks, interests_cache, mixw, clickw,
                   ad_impressions, calls, likeVars, interestVars, adVars>>

\* views.update_ad_impression: a missing impression_id answers 400;
\* update_ad_impression_duration returns False for an unknown id or a store
\* error, answered with 400, else the row is closed.
update_ad_impression ==
    /\ impreq.pc = "run"
    /\ impreq.view = "update_ad_impression"
    /\ LET id == impreq.impression_id
       IN IF id = NoImpressionId \/ ~ImpressionExists(ad_impressions, id)
          THEN /\ impreq' = [impreq EXCEPT !.pc = "done", !.status = 400]
               /\ UNCHANGED ad_impressions
          ELSE \/ /\ ad_impressions' =
                       [ad_impressions EXCEPT ![id] =
                          mark_as_ended(
                              [@ EXCEPT !.viewport_percentage =
                                           impreq.viewport_percentage],
                              impreq.duration_seconds, now)]
                  /\ impreq' = [impreq EXCEPT !.pc = "done", !.status = 200]
               \/ /\ impreq' = [impreq EXCEPT !.pc = "done", !.status = 400]
                  /\ UNCHANGED ad_impressions
    /\ UNCHANGED <<impressions, clicks, interests_cache, mixw, clickw, calls,
                   likeVars, interestVars, adVars>>

\* The response of the impression request has been sent.
impression_return ==
    /\ impreq.pc = "done"
    /\ impreq' = IdleImp
    /\ UNCHANGED <<impressions, clicks, interests_cache, mixw, clickw,
                   ad_impressions, calls, likeVars, interestVars, adVars>>

\* No mixer call, click request or impression request has been made.
TrackQuiet ==
    /\ impressions = [a \in Ads |-> 0]
    /\ clicks = [a \in Ads |-> 0]
    /\ interests_cache = [u \in Users |-> NoEntry]
    /\ mixw = [m \in MixWorkers |-> IdleMix]
    /\ clickw = [c \in ClickWorkers |-> IdleClick]
    /\ ad_impressions = <<>>
    /\ impreq = IdleImp
    /\ calls = 0

\* The interests a seeded user starts with (seed_user_interests.py).
SeededInterests ==
    {[x \in Users \X Tags |-> NoRow],
     [x \in Users \X Tags |-> IF x = <<"u1", "hiking">> THEN 150 ELSE NoRow],
     [x \in Users \X Tags |-> IF x = <<"u1", "hiking">> THEN 50
                              ELSE IF x = <<"u1", "coffee">> THEN 250
                              ELSE NoRow]}

Init == InitLike /\ InitInterest /\ AdsQuiet /\ TrackQuiet

\* The initial state of the interest store runs: no likes, no interest rows.
InitQuiet == LikeQuiet /\ InitInterest /\ AdsQuiet /\ TrackQuiet

\* The initial state of the ad runs.
InitAdRun == LikeQuiet /\ InitInterest /\ InitAds /\ TrackQuiet

\* The worker that makes the get_targeted_ad calls one after another.
AdWorker == "w1"

\* get_targeted_ad calls made one after another; between two calls time
\* passes, ads are edited and the cache is cleared.
NextAds ==
    \/ \E w \in {AdWorker} :
          \/ gta_begin(w)
          \/ gta_query(w)
          \/ gta_write_cache(w)
          \/ gta_write_time(w)
          \/ gta_read(w)
          \/ gta_select(w)
          \/ gta_return(w)
          \/ utils_get_targeted_ad(w)
    \/ /\ NoCallRunning
       /\ clear_ad_cache
       /\ UNCHANGED <<now, adActive, adw, refreshedAt, builtFrom, likeVars,
                      interestVars, trackVars>>
    \/ /\ NoCallRunning
       /\ \E a \in Ads : ad_ops_edit(a)
       /\ UNCHANGED <<now, ad_cache, ad_cache_time, adw, refreshedAt,
                      builtFrom, cleared, likeVars, interestVars, trackVars>>
    \/ /\ NoCallRunning
       /\ \E d \in TickSteps : Tick(d)
       /\ UNCHANGED <<adActive, ad_cache, ad_cache_time, adw, refreshedAt,
                      builtFrom, cleared, likeVars, interestVars, trackVars>>

SpecAds == InitAdRun /\ [][NextAds]_vars

\* The user_interests of the concurrent calls: None.
NoInterests == {[kind |-> "none", names |-> {}]}

\* get_targeted_ad calls of two requests running concurrently, while ad
\* operations switch an ad off and clear the cache, and the clock passes the
\* TTL.
NextAdRace ==
    \/ \E w \in AdWorkers :
          \/ gta_call(w, NoInterests)
          \/ gta_query(w)
          \/ gta_write_cache(w)
          \/ gta_write_time(w)
          \/ gta_read(w)
          \/ gta_select(w)
          \/ gta_return(w)
    \/ ad_ops_edit_and_clear
    \/ /\ Tick(CACHE_TIMEOUT + 1)
       /\ UNCHANGED <<adActive, ad_cache, ad_cache_time, adw, refreshedAt,
                      builtFrom, cleared, likeVars, interestVars, trackVars>>

SpecAdRace == InitQuiet /\ [][NextAdRace]_vars

NextLike ==
    \E r \in Reqs :
        \/ toggle_like_begin(r)
        \/ toggle_like_select(r)
        \/ toggle_like_check(r)
        \/ toggle_like_mutate(r)
        \/ toggle_like_save(r)
        \/ toggle_like_error(r)
        \/ toggle_like_return(r)

SpecLike == Init /\ [][NextLike]_vars

\* Interactions of one user with posts and tags, any action type.
NextInterest ==
    \E u \in InterestUsers, a \in ActionTypes :
        \/ \E t \in Tags : update_user_interest(u, t, a) /\ UNCHANGED lastCall
        \/ \E p \in Posts :
              process_user_interaction(u, p, a) /\ UNCHANGED lastCall

SpecInterest == InitQuiet /\ [][NextInterest]_vars

\* The tag whose score is followed call by call.
ScoreTag == "hiking"

\* Repeated update_user_interest calls on one (user, tag), each recorded.
NextScore ==
    \E u \in InterestUsers, a \in ActionTypes :
        update_user_interest(u, ScoreTag, a) /\ RecordUpdate(u, ScoreTag, a)

SpecScore == InitQuiet /\ [][NextScore]_vars

\* The action types of the interactions with posts that are followed.
InteractActions == {"share", "comment"}

\* Interactions of one user with posts, each call recorded; the store may
\* fail in the update of any tag.
NextInteract ==
    \E u \in InterestUsers, p \in Posts, a \in InteractActions :
        \/ process_user_interaction(u, p, a) /\ RecordInteraction(u, p, a, 0)
        \/ \E k \in 1..Len(PostTags(p)) :
              /\ process_user_interaction_fails(u, p, a, k)
              /\ RecordInteraction(u, p, a, k)

SpecInteract == InitQuiet /\ [][NextInteract]_vars

\* The clock of the runs of the interests cache advances in steps of 300 s
\* or 301 s, this far at most.
CacheTickSteps == {300, 301}
MaxCacheElapsed == 903

\* The engagement that changes the interests while they are cached.
EngagementActions == {"share"}

\* get_user_interests calls of one user, with any min_score and limit,
\* while time passes and the user's engagement updates the interests.
NextInterestsCache ==
    \/ /\ \E min_score \in MinScores, limit \in Limits :
             get_user_interests_call("u1", min_score, limit)
       /\ UNCHANGED <<interest, lastCall, intw, impressions, clicks, mixw,
                      clickw, ad_impressions, impreq, calls, likeVars,
                      adVars>>
    \/ /\ \E t \in Tags, a \in EngagementActions :
             update_user_interest("u1", t, a)
       /\ UNCHANGED lastCall
    \/ /\ \E d \in CacheTickSteps :
             /\ now + d <= StartTime + MaxCacheElapsed
             /\ now' = now + d
       /\ UNCHANGED <<adActive, ad_cache, ad_cache_time, adw, refreshedAt,
                      builtFrom, cleared, likeVars, interestVars, trackVars>>

SpecInterestsCache == InitQuiet /\ [][NextInterestsCache]_vars

\* Scores the pair can have reached when two calls meet on it: no row, and
\* scores of each band.
RaceScores == {NoRow, 100, 200, 510, 840, 990}

\* The action types of the calls that meet.
RaceActions == {"like", "share", "unlike"}

InitInterestRace ==
    /\ LikeQuiet
    /\ \E s \in RaceScores :
          interest = [x \in Users \X Tags |->
                         IF x = <<"u1", ScoreTag>> THEN s ELSE NoRow]
    /\ lastCall = NoCall
    /\ intw = [w \in InterestWorkers |-> IdleUpdate]
    /\ uicall = NoLookup
    /\ AdsQuiet
    /\ TrackQuiet

\* Two update_user_interest calls on one (user, tag), running concurrently.
NextInterestRace ==
    \E w \in InterestWorkers :
        \/ \E a \in RaceActions :
              update_user_interest_get(w, "u1", ScoreTag, a)
        \/ update_user_interest_save(w)

SpecInterestRace == InitInterestRace /\ [][NextInterestRace]_vars

\* The initial state of the mixer runs: a seeded user, any set of ads
\* switched on, no call made yet.
InitMixRun ==
    /\ LikeQuiet
    /\ interest \in SeededInterests
    /\ lastCall = NoCall
    /\ intw = [w \in InterestWorkers |-> IdleUpdate]
    /\ uicall = NoLookup
    /\ InitAds
    /\ TrackQuiet

\* The worker that serves the feed pages one after another.
FeedWorker == "m1"

\* Feed pages mixed one after another by the live mixers; between two turns
\* of the loop ad operations switch ads on and off, clearing the ad cache
\* each time.
NextMix ==
    \/ mix_smart_posts_with_ads(FeedWorker)
    \/ mix_posts_with_ads(FeedWorker)
    \/ mix_next(FeedWorker)
    \/ mix_track(FeedWorker)
    \/ mix_return(FeedWorker)
    \/ /\ mixw[FeedWorker].pc = "loop"
       /\ \E a \in Ads : ad_ops_edit(a)
       /\ clear_ad_cache
       /\ UNCHANGED <<now, adw, refreshedAt, builtFrom, likeVars,
                      interestVars, trackVars>>

SpecMix == InitMixRun /\ [][NextMix]_vars

\* Mixer calls of one ad slot and click requests, served concurrently by two
\* workers each.
NextRace ==
    \/ \E m \in MixWorkers :
          \/ mix_smart_one_slot(m)
          \/ utils_mix_posts_with_ads(m)
          \/ mix_next(m)
          \/ mix_track(m)
          \/ mix_return(m)
    \/ \E c \in ClickWorkers :
          \/ track_ad_click_view(c)
          \/ track_ad_click_get(c)
          \/ track_ad_click_save(c)
          \/ track_ad_click_return(c)

SpecRace == InitQuiet /\ [][NextRace]_vars

\* The workers that serve the API requests one after another.
LikeWorker == "r1"
ClickWorker == "c1"

\* No API request is being served.
NoRequest ==
    /\ req[LikeWorker].pc = "idle"
    /\ clickw[ClickWorker].pc = "idle"
    /\ impreq.pc = "idle"

\* The three endpoints work on different tables.  A behaviour follows the
\* requests of one of them: no request of another endpoint has changed the
\* store.
NoClicks == calls = 0
NoLikes == started = 0
NoImpressions == ad_impressions = <<>>

\* Like, click and impression requests served one after another, with ids
\* that are missing, unknown or known.
NextRequests ==
    \/ /\ NoRequest /\ NoClicks /\ NoImpressions
       /\ started < MaxCalls
       /\ toggle_like_begin(LikeWorker)
    \/ toggle_like_select(LikeWorker)
    \/ toggle_like_check(LikeWorker)
    \/ toggle_like_mutate(LikeWorker)
    \/ toggle_like_save(LikeWorker)
    \/ toggle_like_error(LikeWorker)
    \/ toggle_like_return(LikeWorker)
    \/ /\ NoRequest /\ NoLikes /\ NoImpressions
       /\ track_ad_click_view(ClickWorker)
    \/ track_ad_click_get(ClickWorker)
    \/ track_ad_click_save(ClickWorker)
    \/ track_ad_click_return(ClickWorker)
    \/ /\ NoRequest /\ NoLikes /\ NoClicks
       /\ track_ad_impression_request
    \/ /\ NoRequest /\ NoLikes /\ NoClicks
       /\ update_ad_impression_request
    \/ track_ad_impression
    \/ update_ad_impression
    \/ impression_return

SpecRequests == InitQuiet /\ [][NextRequests]_vars

\* ------------------------------------------------------------------------
\* Properties of the like toggle
\* ------------------------------------------------------------------------
RECURSIVE SumOver(_, _)
SumOver(S, f) ==
    IF S = {} THEN 0
    ELSE LET x == CHOOSE y \in S : TRUE IN f[x] + SumOver(S \ {x}, f)

\* Net committed like toggles of post p over all users.
NetLikes(p) ==
    SumOver(Users, [u \in Users |-> nLiked[<<u, p>>] - nUnliked[<<u, p>>]])

\* Committed PostLike rows of post p.
RowsOfPost(p) == SumOver(Users, [u \in Users |-> postLikes[<<u, p>>]])

\* C1: after every committed toggle of a user on a post, a PostLike row of
\* the pair exists exactly if that toggle's action was 'liked', and
\* post.likes is its initial value plus the 'liked' actions minus the
\* 'unliked' actions, floored at 0.
C1_TogglePairing ==
    /\ \A x \in Pairs :
          lastToggle[x] # "none" =>
             ((postLikes[x] >= 1) <=> (lastToggle[x] = "liked"))
    /\ \A p \in Posts : likes[p] = Max(0, initLikes[p] + NetLikes(p))

\* One user has liked, unliked and liked one post again.
C1_Witness ==
    \E x \in Pairs :
        /\ nLiked[x] >= 2
        /\ nUnliked[x] >= 1
        /\ lastToggle[x] = "liked"
        /\ postLikes[x] = 1

\* C2: in every committed state the counter and the rows of a post differ
\* by what they differed by initially (no rows, the seeded counter).
C2_CounterMatchesRows ==
    \A p \in Posts : likes[p] - RowsOfPost(p) = initLikes[p]

\* Two requests meet on one post: one holds the row lock with its write
\* pending while the other waits in select_for_update, after an earlier
\* toggle on that post was committed.
C2_Witness ==
    \E r1, r2 \in Reqs :
        /\ r1 # r2
        /\ req[r1].pc = "save"
        /\ req[r2].pc = "select"
        /\ req[r1].post = req[r2].post
        /\ req[r1].user # req[r2].user
        /\ lock[req[r1].post] = r1
        /\ RowsOfPost(req[r1].post) >= 1

\* C3: at most one PostLike row per (user, post), also during a double
\* click.
C3_AtMostOneRow == \A x \in Pairs : postLikes[x] <= 1

\* Double click: the same user toggles the same post in two requests at
\* once, the first is about to commit its new row.
C3_Witness ==
    \E r1, r2 \in Reqs :
        /\ r1 # r2
        /\ req[r1].user = req[r2].user
        /\ req[r1].post = req[r2].post
        /\ req[r1].pc = "save"
        /\ req[r1].rowOp = "create"
        /\ req[r2].pc = "select"

\* ------------------------------------------------------------------------
\* Properties of the interest store
\* ------------------------------------------------------------------------

\* C4: every stored interest score stays within [0, 10], whatever sequence
\* of update_user_interest and process_user_interaction calls with known or
\* unknown action types is made.
C4_ScoreInRange ==
    \A x \in Users \X Tags :
        interest[x] # NoRow => (0 <= interest[x] /\ interest[x] <= 1000)

\* Both tags of the user carry a score and one of them is at the cap.
C4_Witness ==
    /\ interest[<<"u1", "hiking">>] = 1000
    /\ interest[<<"u1", "coffee">>] # NoRow
    /\ interest[<<"u1", "coffee">>] > 900

\* The reference update of C5, from the claim: the table weight (1.0 for an
\* unknown action); a new row gets the weight; an existing row gets
\* min(10.0, current + weight * f), f by the score before the update.
RefWeight(a) ==
    IF a \in {"view_30s", "like"} THEN 100
    ELSE IF a \in {"comment", "save"} THEN 200
    ELSE IF a = "share" THEN 300
    ELSE IF a = "view_10s" THEN 50
    ELSE IF a = "click_profile" THEN 150
    ELSE 100

RefFactor(cur) ==
    IF cur < 300 THEN 100
    ELSE IF 300 <= cur /\ cur < 600 THEN 70
    ELSE IF 600 <= cur /\ cur < 900 THEN 40
    ELSE 10

RefUpdate(cur, a) ==
    IF cur = NoRow THEN RefWeight(a)
    ELSE LET sum == cur + (RefWeight(a) * RefFactor(cur)) \div 100
         IN IF sum > 1000 THEN 1000 ELSE sum

\* A step that is a call: it changed the scores or the record of the call.
IsCall == interest' # interest \/ lastCall' # lastCall

\* C5: every update_user_interest(user, tag, action) call leaves the
\* reference update's score for the pair and changes no other pair.
C5_MatchesReference ==
    [][(IsCall /\ lastCall'.kind = "update") =>
          interest' = [interest EXCEPT ![<<lastCall'.user, lastCall'.target>>]
                          = RefUpdate(@, lastCall'.action)]]_vars

\* An existing row in the top band was updated by an action the table does
\* not hold.
C5_Witness ==
    /\ lastCall.kind = "update"
    /\ lastCall.action = "bookmark"
    /\ lastCall.pre >= 900
    /\ lastCall.delta = 10

\* The band boundaries 3, 6 and 9 of the claim.
BoundariesBelow(score) ==
    Cardinality({b \in {300, 600, 900} : b <= score})

\* C6: when a call repeats the action of the call before it on the same
\* pair, its increase is not larger, and it is strictly smaller when the
\* score before it lies in a higher band than the score before that call.
C6_DiminishingReturns ==
    [][(/\ IsCall
        /\ lastCall.kind = "update"
        /\ lastCall'.kind = "update"
        /\ lastCall'.user = lastCall.user
        /\ lastCall'.target = lastCall.target
        /\ lastCall'.action = lastCall.action)
       => /\ lastCall'.delta <= lastCall.delta
          /\ (BoundariesBelow(lastCall'.pre) > BoundariesBelow(lastCall.pre)
                 => lastCall'.delta < lastCall.delta)]_vars

\* A 'share' has just been applied in the band [6, 9) to a score that a
\* 'share' reached.
C6_Witness ==
    /\ lastCall.kind = "update"
    /\ lastCall.action = "share"
    /\ lastCall.pre = 720
    /\ lastCall.delta = 120
    /\ interest[<<"u1", ScoreTag>>] = 840

\* ------------------------------------------------------------------------
\* Likes and the interest store
\* ------------------------------------------------------------------------

\* C7: every committed Unliked -> Liked transition of toggle_like applies
\* process_user_interaction(user, post, 'like'): the interest score of the
\* user for every tag of the post is updated by a 'like'.
C7_LikeFeedsInterest ==
    [][\A x \in Pairs :
          nLiked'[x] = nLiked[x] + 1 =>
             interest' = UpdateTags(interest, x[1], PostTags(x[2]), "like")]_vars

\* ------------------------------------------------------------------------
\* Properties of the ad catalog cache and the ad targeter
\* ------------------------------------------------------------------------

\* The finished calls of the cached get_targeted_ad (feed/utils_ads.py).
CachedCallsDone ==
    {w \in AdWorkers : adw[w].pc = "done" /\ adw[w].impl = "utils_ads"}

\* C8: a call made within 300 s of the last read of the store (and without
\* an invalidation since) uses the cached list as it is and does not read
\* the store; a call made more than 300 s after it reads the store exactly
\* once and stamps the cache with its own time, so the calls of the next
\* 300 s read nothing.
C8_CacheWithinTTL ==
    \A w \in CachedCallsDone :
        /\ (adw[w].wasCached /\ ~adw[w].wasCleared
               /\ adw[w].age <= CACHE_TIMEOUT)
           => /\ adw[w].queries = 0
              /\ adw[w].local = adw[w].before
              /\ ad_cache = adw[w].before
        /\ (adw[w].wasCached /\ adw[w].age > CACHE_TIMEOUT)
           => /\ adw[w].queries = 1
              /\ refreshedAt = adw[w].current_time
              /\ ad_cache_time = adw[w].current_time
              /\ ad_cache = adw[w].local

\* A call exactly 300 s after the last read returned a cached ad although
\* the store has changed since.
C8_Witness ==
    \E w \in CachedCallsDone :
        /\ adw[w].wasCached
        /\ ~adw[w].wasCleared
        /\ adw[w].age = CACHE_TIMEOUT
        /\ adw[w].queries = 0
        /\ adw[w].result # NoAd
        /\ adw[w].local # CampaignActiveAt(adActive, now)

\* C9: the first get_targeted_ad call after clear_ad_cache() reads the store
\* whatever the age of the last read, and its catalog is the campaign-active
\* ads of the store as it is then.
C9_ClearForcesRebuild ==
    \A w \in CachedCallsDone :
        adw[w].wasCleared
           => /\ adw[w].queries = 1
              /\ adw[w].local = CampaignActiveAt(adActive, now)
              /\ ad_cache = adw[w].local

\* The cache was cleared 150 s or less after a read of the store, ads had
\* changed in between, and the call returned an ad of the new catalog.
C9_Witness ==
    \E w \in CachedCallsDone :
        /\ adw[w].wasCleared
        /\ adw[w].wasCached
        /\ adw[w].age <= 150
        /\ adw[w].prior # adw[w].local
        /\ adw[w].result # NoAd

\* C10: get_targeted_ad (feed/utils_ads.py and feed/utils.py) returns None
\* when no ad was campaign-active as its catalog was built, and every ad it
\* returns was campaign-active then: is_active and inside its window.
C10_OnlyCampaignActive ==
    \A w \in AdWorkers :
        adw[w].pc = "done"
           => /\ (adw[w].built = {} => adw[w].result = NoAd)
              /\ (adw[w].result # NoAd => adw[w].result \in adw[w].built)

\* The same for the cached get_targeted_ad of feed/utils_ads.py alone.
CachedOnlyCampaignActive ==
    \A w \in CachedCallsDone :
        /\ (adw[w].built = {} => adw[w].result = NoAd)
        /\ (adw[w].result # NoAd => adw[w].result \in adw[w].built)

\* ------------------------------------------------------------------------
\* Properties of the feed mixer
\* ------------------------------------------------------------------------

\* The ad the feed mixer of worker m has just selected.
JustSelected(m) == mixw[m].impl = "utils_posts" /\ mixw[m].pc = "track"

\* C11: when the feed mixer selects an ad for a user with a stored interest
\* of score >= 1.0 and a campaign-active ad of the catalog targets one of
\* those interests, the selected ad targets one of them too.
C11_TargetedWhenMatching ==
    \A m \in MixWorkers :
        LET w == mixw[m]
            names == StoredInterests(interest, w.user)
        IN (/\ JustSelected(m)
            /\ names # {}
            /\ \E a \in w.catalog \cap CampaignActiveAt(adActive, now) :
                  target_audience(a) \cap names # {})
           => target_audience(w.ad) \cap names # {}

\* Number of entries of the list pool that are ad a.
Entries(pool, a) == Cardinality({k \in 1..Len(pool) : pool[k] = a})

\* A get_targeted_ad call of worker w has returned from the targeted branch
\* or from the fallback below it.
TargetingDone(w) ==
    /\ adw[w].pc = "done"
    /\ adw[w].local # NoneCache
    /\ adw[w].local # {}
    /\ UsesTargeting(adw[w].ui)

\* C12: in the targeted branch the candidate pool holds every ad of the
\* catalog as many times as its target_audience shares tags with the user's
\* interests and nothing else, and a result taken from the pool is one of
\* its entries.
C12_PoolWeights ==
    \A w \in AdWorkers :
        TargetingDone(w) =>
            /\ \A a \in Ads :
                  Entries(adw[w].pool, a) =
                      IF a \in adw[w].local
                      THEN Cardinality(target_audience(a)
                                       \cap adw[w].ui.names)
                      ELSE 0
            /\ \A k \in 1..Len(adw[w].pool) : adw[w].pool[k] \in Ads
            /\ adw[w].pool # <<>> =>
                  \E k \in 1..Len(adw[w].pool) :
                      adw[w].result = adw[w].pool[k]

\* A call returned an ad from a pool in which one ad has two entries and
\* another has one.
C12_Witness ==
    \E w \in AdWorkers :
        /\ TargetingDone(w)
        /\ \E a, b \in Ads : /\ Entries(adw[w].pool, a) = 2
                             /\ Entries(adw[w].pool, b) = 1
        /\ adw[w].result \in Ads

\* The ids of the posts of a mixer output, in output order.
PostsIn(items) ==
    LET ps == SelectSeq(items, LAMBDA x : x.type = "post")
    IN [k \in 1..Len(ps) |-> ps[k].id]

\* The number of ads of a mixer output.
AdsIn(items) == Len(SelectSeq(items, LAMBDA x : x.type = "advertisement"))

\* The number of posts among the first j entries of a mixer output.
PostsUpTo(items, j) == Cardinality({k \in 1..j : items[k].type = "post"})

\* An output made of the posts `posts` in order, with at most
\* floor(Len(posts) / N) ads and exactly as many when no slot stayed empty,
\* every ad right after the post whose 1-based position is a multiple of N.
MixedAtCadence(items, posts, N, emptySlots) ==
    /\ PostsIn(items) = posts
    /\ AdsIn(items) <= Len(posts) \div N
    /\ emptySlots = 0 => AdsIn(items) = Len(posts) \div N
    /\ \A j \in 1..Len(items) :
          items[j].type = "advertisement" =>
              /\ j > 1
              /\ items[j - 1].type = "post"
              /\ PostsUpTo(items, j) % N = 0

\* A call of one of the live mixers has returned.
MixDone(m) == mixw[m].pc = "done" /\ mixw[m].impl \in {"utils_posts", "utils_ads"}

TakenPosts(w) ==
    IF w.impl = "utils_posts"
    THEN [k \in 1..Min(Len(w.posts), w.posts_per_page) |-> w.posts[k]]
    ELSE w.posts

AdOccurrences(items, a) ==
    Cardinality({j \in 1..Len(items) :
                    items[j].type = "advertisement" /\ items[j].id = a})

\* Since the call of worker m began, the impressions of every ad grew by
\* the number of times the ad occurs in the output.
CountedAsInserted(m) ==
    \A a \in Ads :
        impressions[a] =
            mixw[m].before[a] + AdOccurrences(mixw[m].mixed_items, a)

BothInserted(m, n, a) ==
    /\ m # n
    /\ mixw[m].pc = "done" /\ mixw[n].pc = "done"
    /\ ~mixw[m].failed /\ ~mixw[n].failed
    /\ AdOccurrences(mixw[m].mixed_items, a) = 1
    /\ AdOccurrences(mixw[n].mixed_items, a) = 1
    /\ mixw[m].before[a] = mixw[n].before[a]

\* C15: when k = 2 mixer calls running concurrently each insert the same ad
\* once, the impressions of that ad end exactly 2 higher than they started.
C15_NoLostImpression ==
    \A m, n \in MixWorkers : \A a \in Ads :
        BothInserted(m, n, a) => impressions[a] = mixw[m].before[a] + 2

\* Click requests of workers c and d for ad a ran concurrently and both
\* track_ad_click calls returned True.
BothClicked(c, d, a) ==
    /\ c # d
    /\ clickw[c].pc = "done" /\ clickw[d].pc = "done"
    /\ clickw[c].status = 200 /\ clickw[d].status = 200
    /\ clickw[c].ad_id = a /\ clickw[d].ad_id = a
    /\ clickw[c].before = clickw[d].before

\* C16: when k = 2 track_ad_click calls for the same existing ad run
\* concurrently and both return True, the clicks of that ad end exactly 2
\* higher than they started.
C16_NoLostClick ==
    \A c, d \in ClickWorkers : \A a \in Ads :
        BothClicked(c, d, a) => clicks[a] = clickw[c].before + 2

\* C17: the committed clicks and impressions of every ad never decrease
\* from one state to the next.
C17_CountersNeverDecrease ==
    [][\A a \in Ads : /\ clicks'[a] >= clicks[a]
                      /\ impressions'[a] >= impressions[a]]_vars

\* ------------------------------------------------------------------------
\* Failed and rejected requests
\* ------------------------------------------------------------------------

\* Request r ends in this step after its row operation and before its
\* counter was saved, without having committed.
FailsBeforeSave(r) ==
    /\ req[r].pc = "save"
    /\ req'[r].pc = "done"
    /\ req'[r].status # 200

\* C18: a store failure in toggle_like after the PostLike row was created or
\* deleted and before post.likes is saved fails the request with 500 and
\* leaves the rows and the counters as they were before the request: the
\* row of the pair exists if and only if the request found it.
C18_FailedToggleRollsBack ==
    [][\A r \in Reqs :
          FailsBeforeSave(r) =>
              /\ req'[r].status = 500
              /\ likes' = likes
              /\ postLikes' = postLikes
              /\ (PostLikeFilter(postLikes', req[r].user, req[r].post) > 0)
                    = req[r].existing]_vars

\* A toggle_like request of a pair whose row exists has failed after the
\* delete; the row and the counter of the post are still there.
C18_Witness ==
    \E r \in Reqs :
        /\ req[r].pc = "done"
        /\ req[r].failedAt = "save"
        /\ req[r].status = 500
        /\ req[r].existing
        /\ PostLikeFilter(postLikes, req[r].user, req[r].post) > 0

\* The like rows, post counters, ad counters and impression rows.
stored == <<likes, postLikes, impressions, clicks, ad_impressions>>

\* In this step toggle_like request r, whose post_id is missing or names no
\* post, ends.
RejectedToggleEnds(r) ==
    /\ req[r].pc # "done"
    /\ req'[r].pc = "done"
    /\ req'[r].post \notin Posts

\* In this step click request c, whose ad_id is missing or names no ad,
\* ends.
RejectedClickEnds(c) ==
    /\ clickw[c].pc # "done"
    /\ clickw'[c].pc = "done"
    /\ clickw'[c].ad_id \notin Ads

\* In this step an update_ad_impression request, whose impression_id is
\* missing or names no row, ends.
RejectedUpdateEnds ==
    /\ impreq.pc = "run"
    /\ impreq.view = "update_ad_impression"
    /\ impreq'.pc = "done"
    /\ \/ impreq.impression_id = NoImpressionId
       \/ impreq.impression_id \notin DOMAIN ad_impressions

C20_ValidOnlyIfViewed ==
    \A k \in DOMAIN ad_impressions :
        ad_impressions[k].is_valid_impression =>
            ad_impressions[k].view_duration >= 100

\* ------------------------------------------------------------------------
\* Properties of the impression rows
\* ------------------------------------------------------------------------

\* In this step create_ad_impression is called for an existing ad and the
\* store does not fail.
OpenSucceeds ==
    /\ impreq.pc = "run"
    /\ impreq.view = "track_ad_impression"
    /\ impreq.ad_id \in Ads
    /\ impreq'.pc = "done"
    /\ ~impreq'.failed

FoundEmpty(w) == adw[w].before = NoneCache \/ adw[w].before = {}

\* The call of worker w found a cache older than the TTL.
FoundExpired(w) == adw[w].wasCached /\ adw[w].age > CACHE_TIMEOUT

\* The call of worker w has rebuilt the catalog from the store and replaced
\* the list and the timestamp.
Rebuilt(w) ==
    /\ adw[w].queries = 1
    /\ ad_cache = adw[w].local
    /\ ad_cache = CampaignActiveAt(adActive, now)
    /\ ad_cache_time = adw[w].current_time

\* The call of worker w has used the cached list unchanged, without a query.
UsedCache(w) ==
    /\ adw[w].queries = 0
    /\ adw[w].local = adw[w].before
    /\ ad_cache = adw[w].before

\* C22: get_targeted_ad rebuilds the catalog from the store whenever the
\* cache is empty (never populated, invalidated, or holding a list with no
\* ads) or its age exceeds 300 s, replacing the list and the timestamp; in
\* every other case it uses the cached list unchanged and does not query
\* the store.
C22_RebuildWhenEmptyOrExpired ==
    \A w \in CachedCallsDone :
        IF FoundEmpty(w) \/ FoundExpired(w) THEN Rebuilt(w) ELSE UsedCache(w)

\* The call of worker w has read the shared cache variable (line 50) and
\* found a list to select from.
HasCatalog(w) ==
    /\ adw[w].impl = "utils_ads"
    /\ adw[w].pc \in {"select", "done"}
    /\ adw[w].local # NoneCache

\* C23: bounded staleness.  Every catalog list that a get_targeted_ad call
\* selects from was read from the store at most 300 s before the call
\* started, also when the refreshes of concurrent calls race.
C23_BoundedStaleness ==
    \A w \in AdWorkers :
        HasCatalog(w) =>
            adw[w].current_time - adw[w].readAt <= CACHE_TIMEOUT

\* C27: once an ad has been changed in the store and clear_ad_cache() has
\* returned, every get_targeted_ad call that starts afterwards selects from
\* a catalog that was read from the store after the change.
C27_InvalidationNotLost ==
    \A w \in AdWorkers :
        (HasCatalog(w) /\ ~adw[w].clearedDuring) => ~adw[w].preClear

\* The call of worker w has returned None.
ReturnedNone(w) ==
    /\ adw[w].impl = "utils_ads"
    /\ adw[w].pc = "done"
    /\ adw[w].result = NoAd

\* C28: get_targeted_ad returns None only if its refresh found no
\* campaign-active ad in the store or the valid cached list it found was
\* empty, also when clear_ad_cache() runs between the cache check or
\* refresh of the call and its read of the shared cache variable.
C28_NoneOnlyWithoutAds ==
    \A w \in AdWorkers :
        ReturnedNone(w) =>
            IF adw[w].queries > 0 THEN adw[w].fetched = {}
            ELSE adw[w].before = {}

\* ------------------------------------------------------------------------
\* Failures the mixer and the interest store meet
\* ------------------------------------------------------------------------

\* A call of one of the live mixers has returned after at least one of its
\* impression updates failed in the store.
MixDoneAfterFailure(m) == MixDone(m) /\ mixw[m].failed

\* The f-th post of a mixer output is followed by an ad.
FollowedByAd(items, f) ==
    \E j \in 1..(Len(items) - 1) :
        /\ items[j].type = "post"
        /\ PostsUpTo(items, j) = f
        /\ items[j + 1].type = "advertisement"

\* C24: when an impression update fails in the store while the mixer
\* inserts an ad, the mix call still returns the complete sequence: all the
\* posts it works on in order, an ad after every slot for which one was
\* available (the ad whose update failed included), every ad right after
\* the post at a position that is a multiple of the cadence.
C24_TrackFailureSwallowed ==
    \A m \in MixWorkers :
        MixDoneAfterFailure(m) =>
            LET w == mixw[m]
                posts == TakenPosts(w)
            IN /\ MixedAtCadence(w.mixed_items, posts, w.ads_frequency,
                                 w.empty)
               /\ AdsIn(w.mixed_items) + w.empty
                     = Len(posts) \div w.ads_frequency
               /\ FollowedByAd(w.mixed_items, w.failedAt)

\* The update of the ad after the first post failed; the two later slots
\* were processed and their ads counted.
C24_Witness ==
    \E m \in MixWorkers :
        /\ MixDoneAfterFailure(m)
        /\ mixw[m].impl = "utils_ads"
        /\ mixw[m].failedAt = 1
        /\ Len(mixw[m].posts) = 3
        /\ AdsIn(mixw[m].mixed_items) = 3
        /\ SumOver(Ads, [a \in Ads |-> impressions[a] - mixw[m].before[a]]) = 2

\* The tags of a list without the one at position k.
TagsExcept(tags, k) ==
    SubSeq(tags, 1, k - 1) \o SubSeq(tags, k + 1, Len(tags))

\* C25: process_user_interaction applies the interaction to every tag of the
\* post; when the update of one tag fails, the remaining tags are still
\* updated, and the interest rows of tags not on the post are unchanged.
C25_RemainingTagsUpdated ==
    [][(IsCall /\ lastCall'.kind = "process") =>
          LET tags == PostTags(lastCall'.target)
              done == IF lastCall'.delta = 0 THEN tags
                      ELSE TagsExcept(tags, lastCall'.delta)
          IN interest' = UpdateTags(interest, lastCall'.user, done,
                                    lastCall'.action)]_vars

\* C26: under any sequence of update_user_interest calls of any action
\* type, 'unlike' and other types absent from the weight table included, the
\* score of a (user, tag) pair never decreases and an existing row is never
\* deleted; an 'unlike' leaves the score a 'like' would have left.
C26_ScoreNeverDecreases ==
    [][/\ \A x \in Users \X Tags :
             interest[x] # NoRow =>
                 /\ interest'[x] # NoRow
                 /\ interest'[x] >= interest[x]
       /\ (IsCall /\ lastCall'.kind = "update"
              /\ lastCall'.action = "unlike")
          => interest' =
                [interest EXCEPT ![<<lastCall'.user, lastCall'.target>>]
                    = UpdatedScore(@, "like")]]_vars

\* An 'unlike' has just raised an existing score of the band [3, 6) by 0.7,
\* as a 'like' does there.
C26_Witness ==
    /\ lastCall.kind = "update"
    /\ lastCall.action = "unlike"
    /\ lastCall.pre >= 300
    /\ lastCall.pre < 600
    /\ lastCall.delta = 70
    /\ interest[<<lastCall.user, lastCall.target>>] = lastCall.pre + 70

\* Both calls have returned, and both found the pair as it was before
\* either of them wrote: they ran concurrently on the score s.
RanConcurrentlyOn(v, w, s) ==
    /\ v # w
    /\ intw[v].pc = "done" /\ intw[w].pc = "done"
    /\ ~intw[v].created /\ ~intw[w].created
    /\ intw[v].current_score = s
    /\ intw[w].current_score = s

\* C29: concurrent update_user_interest calls on the same (user, tag) are
\* linearizable: the final stored score is the score obtained by applying
\* the calls one after another in some order.
C29_Linearizable ==
    \A v, w \in InterestWorkers : \A s \in RaceScores :
        RanConcurrentlyOn(v, w, s) =>
            LET a == intw[v].action_type
                b == intw[w].action_type
            IN interest[<<"u1", ScoreTag>>]
                  \in {UpdatedScore(UpdatedScore(s, a), b),
                       UpdatedScore(UpdatedScore(s, b), a)}

\* ------------------------------------------------------------------------
\* Properties of the interests cache
\* ------------------------------------------------------------------------

\* This step is a get_user_interests call that changed the record of the
\* last call.
IsLookup == uicall' # uicall /\ uicall'.made

\* C30: within 600 s of a load, get_user_interests(user, min_score, limit)
\* returns the list of that load without querying the store and leaves the
\* cache as it is, whatever the interests in the store have become and
\* whatever min_score and limit are passed; a call at age >= 600 s, or with
\* nothing cached, loads the list from the store as it is then and caches
\* it under the time of the call.
C30_InterestsCachedForTTL ==
    [][IsLookup =>
          LET c == uicall'
              e == interests_cache[c.user]
          IN IF e.cached /\ now - e.time < 600
             THEN /\ ~c.queried
                  /\ c.names = e.interests
                  /\ interests_cache' = interests_cache
             ELSE /\ c.queried
                  /\ c.names \in Loads(interest, c.user, c.min_score,
                                       c.limit)
                  /\ interests_cache' =
                        [interests_cache EXCEPT ![c.user] =
                            [cached |-> TRUE, interests |-> c.names,
                             time |-> now]]]_vars

\* A call has returned the list cached 300 s or 301 s before, although the
\* stored interests have changed since and no load with the arguments of
\* the call would give that list.
C30_Witness ==
    /\ uicall.made
    /\ ~uicall.queried
    /\ interests_cache[uicall.user].cached
    /\ now - interests_cache[uicall.user].time \in CacheTickSteps
    /\ uicall.names # StoredInterests(interest, uicall.user)
    /\ uicall.names \notin Loads(interest, uicall.user, uicall.min_score,
                                 uicall.limit)

====
